---- MODULE Spec2Model ----
(***************************************************************************)
(* Model of the Blinko Telegram bot: the encrypted credential store        *)
(* (storage.py), the remote note client (blinko_api.py) and the command    *)
(* handlers that sequence them (bot.py).                                   *)
(*                                                                         *)
(* Seven specifications share the variables:                               *)
(*   SpecCred   - the credential operations of UserStorage, and restarts   *)
(*   SpecCorr   - the note_messages operations of UserStorage              *)
(*   SpecClient - the operations of BlinkoAPI against a transport          *)
(*   Spec       - the bot: the command handlers of one process            *)
(*   SpecRestart - the credential commands across process restarts         *)
(*   SpecBoundary - the store and the client of one process, with faults   *)
(*   SpecSteps  - the handlers call by call, two users interleaved        *)
(***************************************************************************)
EXTENDS Integers, Sequences, FiniteSets, TLC

\* ---------------------------------------------------------------- bounds
MaxMsg == 2          \* message ids Telegram hands out are 1..MaxMsg
MaxRows == 2         \* rows of note_messages written by direct store calls
MaxArgs == 1         \* words after a command
MaxLen == 2          \* characters of a content string given to the client

\* ------------------------------------------------------- program constants
MinTokenLen == 10    \* bot.py: len(token) < 10 is rejected

\* ------------------------------------------------------------ value sets
Users == {1, 2}
Chats == {1, 2}
MsgIds == {100, 101}
\* The keys direct calls of the store use: one triple and the three that
\* differ from it in one component.
Triples == {<<1, 100, 1>>, <<2, 100, 1>>, <<1, 101, 1>>, <<1, 100, 2>>}
Names == {"ann", "bob"}
Keys == {"k1", "k2"}
Tokens == {"token-aaaa", "token-bbbb"}
NoteTypes == {0, 1}
NoteIds == {"7", "8"}

\* Python's None where the other values are strings.
None == "None"

\* ------------------------------------------------------------ Fernet
\* A Fernet token is an opaque string made from the key and the plaintext.
\* decrypt checks the token's HMAC under its own key: it gives back the
\* plaintext of a token made with that key and raises InvalidToken for
\* every other string.
InvalidToken == "InvalidToken"

encrypt(key, plaintext) == "gAAAAA/" \o key \o "/" \o plaintext

decrypt(key, ciphertext) ==
    LET made == {p \in Tokens : encrypt(key, p) = ciphertext} IN
    IF made = {} THEN InvalidToken ELSE CHOOSE p \in made : TRUE

\* ------------------------------------------------------------ state
VARIABLES
    cipher,          \* UserStorage.cipher: the key of the running process
    user_tokens,     \* table user_tokens: a set of rows
    note_messages,   \* table note_messages: a set of rows
    next_message_id, \* the id Telegram gives the next message the bot sends
    call,            \* the last operation or command and its arguments
    found,           \* the rows its key matched before it ran
    ret,             \* what that operation returned to its caller
    invoked,         \* the BlinkoAPI methods that command called
    http,            \* the HTTP requests that operation put on the wire
    replies,         \* the messages that command sent to the user
    flight           \* per user, the command a handler is in the middle of

vars == <<cipher, user_tokens, note_messages, next_message_id,
          call, found, ret, invoked, http, replies, flight>>

db == <<user_tokens, note_messages>>

\* ------------------------------------------------------------ strings
\* Text whose whitespace matters is a sequence of characters.
Chars == {" ", "x"}
Whitespace == {" "}

RECURSIVE lstrip(_)
lstrip(s) ==
    IF s # << >> /\ Head(s) \in Whitespace THEN lstrip(Tail(s)) ELSE s

RECURSIVE rstrip(_)
rstrip(s) ==
    IF s # << >> /\ s[Len(s)] \in Whitespace
    THEN rstrip(SubSeq(s, 1, Len(s) - 1)) ELSE s

\* str.strip()
strip(s) == rstrip(lstrip(s))

StringsUpTo(n) == UNION {[1..k -> Chars] : k \in 0..n}
Contents == StringsUpTo(MaxLen)

\* ------------------------------------------------------------ JSON values
\* The value of a JSON field as Python sees it: None, an int or a str.
JNone == [t |-> "none", n |-> 0, s |-> ""]
JInt(n) == [t |-> "int", n |-> n, s |-> ""]
JStr(s) == [t |-> "str", n |-> 0, s |-> s]

\* bool(v)
Truthy(v) == \/ v.t = "int" /\ v.n # 0
             \/ v.t = "str" /\ v.s # ""

\* str(v)
PyStr(v) == IF v.t = "int" THEN ToString(v.n)
            ELSE IF v.t = "str" THEN v.s
            ELSE "None"

\* blinko_url is an optional column; the bot never passes one.
Urls == {None, "https://blinko.example/api/v1"}

\* ------------------------------------------------------------ mutations
\* Each definition below whose comment starts with "Mutation" is the
\* definition that follows it with one plausible slip; the properties are
\* required to tell the two apart.

\* ---------------------------------------------------------------- SQLite
\* Mutation: a plain INSERT, the old row of the user is kept.
InsertUserToken(rows, row) == rows \cup {row}

\* INSERT OR REPLACE INTO user_tokens: PRIMARY KEY (user_id), so the row
\* with the same user_id, if any, is deleted before the new one goes in.
InsertOrReplaceUserToken(rows, row) ==
    {r \in rows : r.user_id # row.user_id} \cup {row}

\* Mutation: the key leaves out chat_id.
InsertOrReplaceNoteMessageAnyChat(rows, row) ==
    {r \in rows : ~(/\ r.user_id = row.user_id
                    /\ r.message_id = row.message_id)} \cup {row}

\* INSERT OR REPLACE INTO note_messages:
\* PRIMARY KEY (user_id, message_id, chat_id).
InsertOrReplaceNoteMessage(rows, row) ==
    {r \in rows : ~(/\ r.user_id = row.user_id
                    /\ r.message_id = row.message_id
                    /\ r.chat_id = row.chat_id)} \cup {row}

\* SELECT ... FROM user_tokens WHERE user_id = ?
SelectUserToken(user_id) == {r \in user_tokens : r.user_id = user_id}

\* SELECT ... FROM note_messages
\* WHERE user_id = ? AND message_id = ? AND chat_id = ?
\* Mutation: the WHERE clause leaves out user_id.
SelectNoteMessageOfAnyUser(user_id, message_id, chat_id) ==
    {r \in note_messages : r.message_id = message_id /\ r.chat_id = chat_id}

SelectNoteMessage(user_id, message_id, chat_id) ==
    {r \in note_messages : /\ r.user_id = user_id
                           /\ r.message_id = message_id
                           /\ r.chat_id = chat_id}

\* Mutation: the DELETE has no WHERE clause.
DeleteUserTokenOfEveryUser(rows, user_id) == {}

\* DELETE FROM user_tokens WHERE user_id = ?
DeleteUserToken(rows, user_id) == {r \in rows : r.user_id # user_id}

\* ------------------------------------------------------------ UserStorage
\* Every method runs its SQL inside try/except Exception: a fault of the
\* storage layer (fault = TRUE) rolls the statement back and turns into the
\* method's failure value.

\* Mutation: the token is written as it came, not encrypted.
store_user_token_plaintext(user_id, username, token, blinko_url, fault) ==
    IF fault
    THEN [rows |-> user_tokens, ret |-> FALSE]
    ELSE [rows |-> InsertOrReplaceUserToken(user_tokens,
                       [user_id |-> user_id,
                        username |-> username,
                        encrypted_token |-> token,
                        blinko_url |-> blinko_url]),
          ret |-> TRUE]

store_user_token(user_id, username, token, blinko_url, fault) ==
    IF fault
    THEN [rows |-> user_tokens, ret |-> FALSE]
    ELSE [rows |-> InsertOrReplaceUserToken(user_tokens,
                       [user_id |-> user_id,
                        username |-> username,
                        encrypted_token |-> encrypt(cipher, token),
                        blinko_url |-> blinko_url]),
          ret |-> TRUE]

get_user_token(user_id, fault) ==
    IF fault THEN None
    ELSE LET result == SelectUserToken(user_id) IN
         IF result # {}
         THEN LET token == decrypt(cipher, (CHOOSE r \in result : TRUE).encrypted_token) IN
              IF token = InvalidToken THEN None ELSE token
         ELSE None

\* The dict of get_user_config; has is FALSE for None.
NoConfig == [has |-> FALSE, token |-> None, blinko_url |-> None, username |-> None]

get_user_config(user_id, fault) ==
    IF fault THEN NoConfig
    ELSE LET result == SelectUserToken(user_id) IN
         IF result # {}
         THEN LET row == CHOOSE r \in result : TRUE
                  token == decrypt(cipher, row.encrypted_token) IN
              IF token = InvalidToken THEN NoConfig
              ELSE [has |-> TRUE, token |-> token,
                    blinko_url |-> row.blinko_url, username |-> row.username]
         ELSE NoConfig

remove_user_token(user_id, fault) ==
    IF fault
    THEN [rows |-> user_tokens, ret |-> FALSE]
    ELSE [rows |-> DeleteUserToken(user_tokens, user_id), ret |-> TRUE]

get_user_count(fault) ==
    IF fault THEN 0 ELSE Cardinality(user_tokens)

store_note_message(user_id, message_id, chat_id, note_id, note_type, fault) ==
    IF fault
    THEN [rows |-> note_messages, ret |-> FALSE]
    ELSE [rows |-> InsertOrReplaceNoteMessage(note_messages,
                       [user_id |-> user_id,
                        message_id |-> message_id,
                        chat_id |-> chat_id,
                        note_id |-> note_id,
                        note_type |-> note_type]),
          ret |-> TRUE]

\* The dict of get_note_from_reply; has is FALSE for None.
NoNote == [has |-> FALSE, note_id |-> None, note_type |-> 0]

get_note_from_reply(user_id, reply_to_message_id, chat_id, fault) ==
    IF fault THEN NoNote
    ELSE LET result == SelectNoteMessage(user_id, reply_to_message_id, chat_id) IN
         IF result # {}
         THEN LET row == CHOOSE r \in result : TRUE IN
              [has |-> TRUE, note_id |-> row.note_id, note_type |-> row.note_type]
         ELSE NoNote

\* ------------------------------------------------- commands in flight
\* A handler is a coroutine: between two of its calls another handler may
\* run. flight[u] is where the handler of u's command stands: the call that
\* comes next (pc), the command, and the locals it carries from call to
\* call: token, note_info and sent_message. A handler that has returned
\* leaves the messages it sent in said.
NoCommand == [op |-> "none"]

Idle(said) ==
    [pc |-> "idle", cmd |-> NoCommand, token |-> None, note_info |-> NoNote,
     sent_message |-> 0, said |-> said]

\* ------------------------------------------------- direct calls of the store
Quiet == /\ UNCHANGED flight
         /\ http' = << >>
         /\ invoked' = << >>
         /\ replies' = << >>
         /\ UNCHANGED next_message_id

StoreUserToken ==
    \E u \in Users, n \in Names, t \in Tokens, url \in Urls, fault \in BOOLEAN :
        LET r == store_user_token(u, n, t, url, fault) IN
        /\ user_tokens' = r.rows
        /\ ret' = r.ret
        /\ call' = [op |-> "store_user_token", user_id |-> u, username |-> n,
                    token |-> t, blinko_url |-> url, fault |-> fault]
        /\ found' = SelectUserToken(u)
        /\ Quiet
        /\ UNCHANGED <<cipher, note_messages>>

GetUserToken ==
    \E u \in Users, fault \in BOOLEAN :
        /\ ret' = get_user_token(u, fault)
        /\ call' = [op |-> "get_user_token", user_id |-> u, fault |-> fault]
        /\ found' = SelectUserToken(u)
        /\ Quiet
        /\ UNCHANGED <<cipher, user_tokens, note_messages>>

GetUserConfig ==
    \E u \in Users, fault \in BOOLEAN :
        /\ ret' = get_user_config(u, fault)
        /\ call' = [op |-> "get_user_config", user_id |-> u, fault |-> fault]
        /\ found' = SelectUserToken(u)
        /\ Quiet
        /\ UNCHANGED <<cipher, user_tokens, note_messages>>

RemoveUserToken ==
    \E u \in Users, fault \in BOOLEAN :
        LET r == remove_user_token(u, fault) IN
        /\ user_tokens' = r.rows
        /\ ret' = r.ret
        /\ call' = [op |-> "remove_user_token", user_id |-> u, fault |-> fault]
        /\ found' = SelectUserToken(u)
        /\ Quiet
        /\ UNCHANGED <<cipher, note_messages>>

GetUserCount ==
    \E fault \in BOOLEAN :
        /\ ret' = get_user_count(fault)
        /\ call' = [op |-> "get_user_count", fault |-> fault]
        /\ found' = {}
        /\ Quiet
        /\ UNCHANGED <<cipher, user_tokens, note_messages>>

StoreNoteMessage ==
    \E k \in Triples, n \in NoteIds, t \in NoteTypes, fault \in BOOLEAN :
        LET u == k[1]
            m == k[2]
            c == k[3]
            r == store_note_message(u, m, c, n, t, fault) IN
        /\ (Cardinality(note_messages) < MaxRows \/ SelectNoteMessage(u, m, c) # {})
        /\ note_messages' = r.rows
        /\ ret' = r.ret
        /\ call' = [op |-> "store_note_message", user_id |-> u, message_id |-> m,
                    chat_id |-> c, note_id |-> n, note_type |-> t, fault |-> fault]
        /\ found' = SelectNoteMessage(u, m, c)
        /\ Quiet
        /\ UNCHANGED <<cipher, user_tokens>>

GetNoteFromReply ==
    \E u \in Users, m \in MsgIds, c \in Chats, fault \in BOOLEAN :
        /\ ret' = get_note_from_reply(u, m, c, fault)
        /\ call' = [op |-> "get_note_from_reply", user_id |-> u, message_id |-> m,
                    chat_id |-> c, fault |-> fault]
        /\ found' = SelectNoteMessage(u, m, c)
        /\ Quiet
        /\ UNCHANGED <<cipher, user_tokens, note_messages>>

\* A new process on the same database file: UserStorage.__init__ takes the
\* configured key or, when none is configured, generates one.
Restart ==
    \E key \in Keys :
        /\ cipher' = key
        /\ call' = [op |-> "__init__"]
        /\ ret' = None
        /\ found' = {}
        /\ Quiet
        /\ UNCHANGED <<user_tokens, note_messages>>

Init ==
    /\ cipher = "k1"
    /\ user_tokens = {}
    /\ note_messages = {}
    /\ next_message_id = 1
    /\ call = [op |-> "__init__"]
    /\ found = {}
    /\ ret = None
    /\ invoked = << >>
    /\ http = << >>
    /\ replies = << >>
    /\ flight = [u \in Users |-> Idle(<< >>)]

\* ------------------------------------------------------------ transport
\* What requests.Session.post/get does with one request: a response with
\* a status code and a body, or an exception of the requests library.
Statuses == {200, 304, 400, 401, 403, 500}
Exceptions == {"ReadTimeout", "ConnectTimeout", "ConnectionError", "SSLError",
               "InvalidURL"}

\* requests.exceptions: ConnectTimeout derives from both ConnectionError and
\* Timeout, SSLError from ConnectionError.
IsTimeout(e) == e \in {"ReadTimeout", "ConnectTimeout"}
IsConnectionError(e) == e \in {"ConnectionError", "ConnectTimeout", "SSLError"}

\* The body: not JSON at all, JSON that is not an object, or an object
\* with or without an "id" field.
Bodies ==
    {[json |-> "invalid", has_id |-> FALSE, id |-> JNone],
     [json |-> "array", has_id |-> FALSE, id |-> JNone],
     [json |-> "object", has_id |-> FALSE, id |-> JNone],
     [json |-> "object", has_id |-> TRUE, id |-> JNone],
     [json |-> "object", has_id |-> TRUE, id |-> JInt(0)],
     [json |-> "object", has_id |-> TRUE, id |-> JInt(7)],
     [json |-> "object", has_id |-> TRUE, id |-> JInt(8)]}

NoBody == [json |-> "invalid", has_id |-> FALSE, id |-> JNone]

\* The body of an error response is never read.
Outcomes ==
    [kind : {"response"}, status : {c \in Statuses : c < 400}, body : Bodies,
     exc : {""}]
    \cup [kind : {"response"}, status : {c \in Statuses : c >= 400},
          body : {NoBody}, exc : {""}]
    \cup [kind : {"raise"}, status : {0}, body : {NoBody}, exc : Exceptions]

\* ------------------------------------------------------------ BlinkoAPI
\* The result dicts; a key a dict does not have is FALSE/""/0/JNone here.
Failure(error, status_code) ==
    [success |-> FALSE, error |-> error, status_code |-> status_code,
     has_note_id |-> FALSE, note_id |-> JNone]

Success(note_id) ==
    [success |-> TRUE, error |-> "", status_code |-> 0,
     has_note_id |-> TRUE, note_id |-> note_id]

TokenValid ==
    [success |-> TRUE, error |-> "", status_code |-> 0,
     has_note_id |-> FALSE, note_id |-> JNone]

\* Mutation: there is no `except Exception`; an exception that is neither a
\* Timeout nor a ConnectionError leaves the method.
ExceptResultWithoutCatchAll(e) ==
    IF IsTimeout(e) THEN Failure("timeout", 0)
    ELSE IF IsConnectionError(e) THEN Failure("connection", 0)
    ELSE Failure("escaped", 0)

\* The except clauses, in the order the methods list them.
ExceptResult(e) ==
    IF IsTimeout(e) THEN Failure("timeout", 0)
    ELSE IF IsConnectionError(e) THEN Failure("connection", 0)
    ELSE Failure("unexpected", 0)

\* Mutation: only the empty string is refused.
EmptyContentNoStrip(content) == content = << >>

\* if not content or not content.strip()
EmptyContent(content) == content = << >> \/ strip(content) = << >>

\* The JSON body of a POST /note/upsert.
NoteData(has_id, id, content, note_type) ==
    [has_id |-> has_id, id |-> id, content |-> strip(content), type |-> note_type]

NoData == [has_id |-> FALSE, id |-> "", content |-> << >>, type |-> 0]

\* self.session as BlinkoAPI.__init__ leaves it: the constructor takes the
\* base URL and nothing else, switches certificate verification off and
\* silences urllib3's InsecureRequestWarning.
session == [verify |-> FALSE, insecure_request_warning |-> FALSE]

\* One request of the session, sent with the session's verify setting.
Exchange(method, path, token, json, outcome) ==
    [method |-> method, path |-> path, bearer |-> token, json |-> json,
     verify |-> session.verify, outcome |-> outcome]

\* Mutation: the check for >= 400 comes before the check for 401.
UpsertResultStatusFirst(outcome, dflt) ==
    IF outcome.kind = "raise" THEN ExceptResult(outcome.exc)
    ELSE IF outcome.status >= 400 THEN Failure("api_error", outcome.status)
    ELSE IF outcome.status = 401 THEN Failure("unauthorized", 0)
    ELSE IF outcome.body.json = "invalid" THEN Failure("unexpected", 0)
    ELSE IF outcome.body.json = "array" THEN Failure("unexpected", 0)
    ELSE Success(IF outcome.body.has_id THEN outcome.body.id ELSE dflt)

\* Status checks and response.json() of create_note and update_note; dflt is
\* the default of result.get('id', ...).
UpsertResult(outcome, dflt) ==
    IF outcome.kind = "raise" THEN ExceptResult(outcome.exc)
    ELSE IF outcome.status = 401 THEN Failure("unauthorized", 0)
    ELSE IF outcome.status >= 400 THEN Failure("api_error", outcome.status)
    ELSE IF outcome.body.json = "invalid" THEN Failure("unexpected", 0)
    ELSE IF outcome.body.json = "array" THEN Failure("unexpected", 0)
    ELSE Success(IF outcome.body.has_id THEN outcome.body.id ELSE dflt)

\* Mutation: a request that timed out is sent a second time.
create_note_retries_on_timeout(token, content, note_type, outcome) ==
    LET request == Exchange("POST", "note/upsert", token,
                            NoteData(FALSE, "", content, note_type), outcome) IN
    IF EmptyContent(content)
    THEN [result |-> Failure("validation", 0), sent |-> << >>]
    ELSE [result |-> UpsertResult(outcome, JNone),
          sent |-> IF outcome.kind = "raise" /\ IsTimeout(outcome.exc)
                   THEN <<request, request>> ELSE <<request>>]

create_note(token, content, note_type, outcome) ==
    IF EmptyContent(content)
    THEN [result |-> Failure("validation", 0), sent |-> << >>]
    ELSE [result |-> UpsertResult(outcome, JNone),
          sent |-> <<Exchange("POST", "note/upsert", token,
                              NoteData(FALSE, "", content, note_type), outcome)>>]

\* Mutation: note_data goes out without the id of the note.
update_note_without_id(token, note_id, content, note_type, outcome) ==
    IF EmptyContent(content)
    THEN [result |-> Failure("validation", 0), sent |-> << >>]
    ELSE [result |-> UpsertResult(outcome, JStr(note_id)),
          sent |-> <<Exchange("POST", "note/upsert", token,
                              NoteData(FALSE, "", content, note_type), outcome)>>]

update_note(token, note_id, content, note_type, outcome) ==
    IF EmptyContent(content)
    THEN [result |-> Failure("validation", 0), sent |-> << >>]
    ELSE [result |-> UpsertResult(outcome, JStr(note_id)),
          sent |-> <<Exchange("POST", "note/upsert", token,
                              NoteData(TRUE, note_id, content, note_type), outcome)>>]

\* Mutation: a 403 is taken for a rejected token as well.
test_token_403_rejects(token, outcome) ==
    [result |-> IF outcome.kind = "raise" THEN ExceptResult(outcome.exc)
                ELSE IF outcome.status \in {401, 403}
                THEN Failure("unauthorized", 0)
                ELSE TokenValid,
     sent |-> <<Exchange("GET", "note", token, NoData, outcome)>>]

test_token(token, outcome) ==
    [result |-> IF outcome.kind = "raise" THEN ExceptResult(outcome.exc)
                ELSE IF outcome.status = 401 THEN Failure("unauthorized", 0)
                ELSE IF outcome.status \in {200, 403} THEN TokenValid
                ELSE TokenValid,
     sent |-> <<Exchange("GET", "note", token, NoData, outcome)>>]

\* ------------------------------------------------ direct calls of the client
ClientTokens == {"token-aaaa"}

Untouched ==
    UNCHANGED <<cipher, user_tokens, note_messages, next_message_id, flight>>

CreateNote ==
    \E token \in ClientTokens, content \in Contents, t \in NoteTypes, o \in Outcomes :
        LET r == create_note(token, content, t, o) IN
        /\ ret' = r.result
        /\ http' = r.sent
        /\ call' = [op |-> "create_note", token |-> token, content |-> content,
                    note_type |-> t]
        /\ found' = {}
        /\ invoked' = << >>
        /\ replies' = << >>
        /\ Untouched

UpdateNote ==
    \E token \in ClientTokens, id \in NoteIds, content \in Contents, t \in NoteTypes,
       o \in Outcomes :
        LET r == update_note(token, id, content, t, o) IN
        /\ ret' = r.result
        /\ http' = r.sent
        /\ call' = [op |-> "update_note", token |-> token, note_id |-> id,
                    content |-> content, note_type |-> t]
        /\ found' = {}
        /\ invoked' = << >>
        /\ replies' = << >>
        /\ Untouched

TestToken ==
    \E token \in ClientTokens, o \in Outcomes :
        LET r == test_token(token, o) IN
        /\ ret' = r.result
        /\ http' = r.sent
        /\ call' = [op |-> "test_token", token |-> token]
        /\ found' = {}
        /\ invoked' = << >>
        /\ replies' = << >>
        /\ Untouched

NextClient ==
    \/ CreateNote
    \/ UpdateNote
    \/ TestToken

SpecClient == Init /\ [][NextClient]_vars

NextCred ==
    \/ StoreUserToken
    \/ GetUserToken
    \/ GetUserConfig
    \/ RemoveUserToken
    \/ GetUserCount
    \/ Restart

SpecCred == Init /\ [][NextCred]_vars

NextCorr ==
    \/ StoreNoteMessage
    \/ GetNoteFromReply

SpecCorr == Init /\ [][NextCorr]_vars

\* ------------------------------------------------------------ the bot
\* What reaches a handler: the sender, the chat, the words after the
\* command (context.args, split on whitespace) or the text of a reply and
\* the message replied to. While the handler runs, the transport decides
\* the outcome of each request and the storage layer may fault in each call.
BotChats == {1}
Words == {<<"x">>}
ArgLists == UNION {[1..k -> Words] : k \in 0..MaxArgs}
ReplyTexts == {<<" ">>, <<" ", "x">>}

\* Each user holds one token of the remote service, and may send it, a
\* shorter string or nothing after /configure.
TokenOf(u) == IF u = 1 THEN "token-aaaa" ELSE "token-bbbb"
ConfigureArgs(u) == {<< >>, <<"to", "ken">>, <<TokenOf(u)>>}

\* The remote service gives every note it creates an id of its own: the
\* ids it hands out count up with the confirmations the bot has sent.
FreshId == JInt(6 + next_message_id)

\* What the transport does with a request of a command: a timeout, a 401,
\* or a 200 whose body has no id, a zero id or a fresh id.
BotOutcomes ==
    {[kind |-> "raise", status |-> 0, body |-> NoBody, exc |-> "ReadTimeout"],
     [kind |-> "response", status |-> 401, body |-> NoBody, exc |-> ""],
     [kind |-> "response", status |-> 200, exc |-> "",
      body |-> [json |-> "object", has_id |-> FALSE, id |-> JNone]],
     [kind |-> "response", status |-> 200, exc |-> "",
      body |-> [json |-> "object", has_id |-> TRUE, id |-> JInt(0)]],
     [kind |-> "response", status |-> 200, exc |-> "",
      body |-> [json |-> "object", has_id |-> TRUE, id |-> FreshId]]}

\* update.effective_user.username or update.effective_user.first_name
UserName(u) == IF u = 1 THEN "ann" ELSE "bob"

\* ' '.join(words) for a str.
RECURSIVE JoinStr(_)
JoinStr(words) ==
    IF words = << >> THEN ""
    ELSE IF Len(words) = 1 THEN words[1]
    ELSE words[1] \o " " \o JoinStr(Tail(words))

\* ' '.join(words) for text kept as characters.
RECURSIVE JoinChars(_)
JoinChars(words) ==
    IF words = << >> THEN << >>
    ELSE IF Len(words) = 1 THEN words[1]
    ELSE words[1] \o <<" ">> \o JoinChars(Tail(words))

Invocation(fn, token, note_id, content, note_type) ==
    [fn |-> fn, token |-> token, note_id |-> note_id, content |-> content,
     note_type |-> note_type]

\* The storage calls of the command that faulted.
Faults(read, lookup, write) ==
    {p \in {"read", "lookup", "write"} :
        \/ p = "read" /\ read
        \/ p = "lookup" /\ lookup
        \/ p = "write" /\ write}

\* A handler ran to its end: cmd is the command, faults the storage calls
\* that faulted, the rest what it left behind.
Handled(cmd, faults, tokens, notes, next_id, calls, sent, said) ==
    /\ call' = [cmd EXCEPT !.faults = faults]
    /\ user_tokens' = tokens
    /\ note_messages' = notes
    /\ next_message_id' = next_id
    /\ invoked' = calls
    /\ http' = sent
    /\ replies' = said
    /\ ret' = None
    /\ UNCHANGED <<cipher, flight>>

\* A handler that returned before it called the client or wrote anything.
Returned(cmd, faults, said) ==
    Handled(cmd, faults, user_tokens, note_messages, next_message_id,
            << >>, << >>, said)

\* Mutation: the token is stored before test_token has answered.
configure_command_stores_unvalidated(cmd) ==
    LET user_id == cmd.user_id
        username == UserName(user_id) IN
    IF cmd.args = << >> THEN Returned(cmd, {}, <<"usage">>)
    ELSE LET token == JoinStr(cmd.args) IN
    IF Len(token) < MinTokenLen THEN Returned(cmd, {}, <<"too_short">>)
    ELSE \E outcome \in BotOutcomes, write \in BOOLEAN :
         LET test_result == test_token(token, outcome)
             calls == <<Invocation("test_token", token, None, << >>, 0)>>
             stored == store_user_token(user_id, username, token, None, write)
         IN
         Handled(cmd, Faults(FALSE, FALSE, write), stored.rows, note_messages,
                 next_message_id, calls, test_result.sent,
                 <<"testing",
                   IF ~test_result.result.success
                   THEN IF test_result.result.error = "unauthorized"
                        THEN "invalid_token" ELSE "connection_error"
                   ELSE IF stored.ret THEN "configured" ELSE "store_failed">>)

\* The words of context.args hold no whitespace, so the strip() of their
\* join takes nothing away from a token.
configure_command(cmd) ==
    LET user_id == cmd.user_id
        username == UserName(user_id) IN
    IF cmd.args = << >> THEN Returned(cmd, {}, <<"usage">>)
    ELSE LET token == JoinStr(cmd.args) IN
    IF Len(token) < MinTokenLen THEN Returned(cmd, {}, <<"too_short">>)
    ELSE \E outcome \in BotOutcomes :
         LET test_result == test_token(token, outcome)
             calls == <<Invocation("test_token", token, None, << >>, 0)>> IN
         IF ~test_result.result.success
         THEN Handled(cmd, {}, user_tokens, note_messages, next_message_id,
                      calls, test_result.sent,
                      <<"testing",
                        IF test_result.result.error = "unauthorized"
                        THEN "invalid_token" ELSE "connection_error">>)
         ELSE \E write \in BOOLEAN :
              LET stored == store_user_token(user_id, username, token, None,
                                             write) IN
              Handled(cmd, Faults(FALSE, FALSE, write), stored.rows,
                      note_messages, next_message_id, calls, test_result.sent,
                      <<"testing", IF stored.ret THEN "configured"
                                   ELSE "store_failed">>)

_create_note(cmd, note_type) ==
    LET user_id == cmd.user_id IN
    \E read \in BOOLEAN :
    LET token == get_user_token(user_id, read) IN
    IF token = None \/ token = ""
    THEN Returned(cmd, Faults(read, FALSE, FALSE), <<"not_configured">>)
    ELSE IF cmd.args = << >> THEN Returned(cmd, {}, <<"usage">>)
    ELSE LET note_content == strip(JoinChars(cmd.args)) IN
    IF note_content = << >> THEN Returned(cmd, {}, <<"empty">>)
    ELSE \E outcome \in BotOutcomes :
         LET r == create_note(token, note_content, note_type, outcome)
             result == r.result
             calls == <<Invocation("create_note", token, None, note_content,
                                   note_type)>> IN
         IF result.success
         THEN LET sent_message == next_message_id IN
              IF result.has_note_id /\ Truthy(result.note_id)
              THEN \E write \in BOOLEAN :
                   Handled(cmd, Faults(FALSE, FALSE, write), user_tokens,
                           store_note_message(user_id, sent_message,
                               cmd.chat_id, PyStr(result.note_id), note_type,
                               write).rows,
                           next_message_id + 1, calls, r.sent, <<"added">>)
              ELSE Handled(cmd, {}, user_tokens, note_messages,
                           next_message_id + 1, calls, r.sent, <<"added">>)
         ELSE Handled(cmd, {}, user_tokens, note_messages, next_message_id,
                      calls, r.sent,
                      <<IF result.error = "unauthorized" THEN "auth_failed"
                        ELSE "failed">>)

note_command(cmd) == _create_note(cmd, 0)

blinko_command(cmd) == _create_note(cmd, 1)

status_command(cmd) ==
    \E read \in BOOLEAN :
    LET config == get_user_config(cmd.user_id, read) IN
    IF ~config.has
    THEN Returned(cmd, Faults(read, FALSE, FALSE), <<"not_configured">>)
    ELSE \E outcome \in BotOutcomes :
         LET test_result == test_token(config.token, outcome) IN
         Handled(cmd, {}, user_tokens, note_messages, next_message_id,
                 <<Invocation("test_token", config.token, None, << >>, 0)>>,
                 test_result.sent,
                 <<IF test_result.result.success THEN "status_active"
                   ELSE "status_invalid">>)

\* Mutation: the reset takes the user's note_messages rows along.
reset_command_forgets_notes(cmd) ==
    \E write \in BOOLEAN :
    LET removed == remove_user_token(cmd.user_id, write) IN
    Handled(cmd, Faults(FALSE, FALSE, write), removed.rows,
            IF removed.ret
            THEN {r \in note_messages : r.user_id # cmd.user_id}
            ELSE note_messages,
            next_message_id, << >>, << >>,
            <<IF removed.ret THEN "removed" ELSE "remove_failed">>)

reset_command(cmd) ==
    \E write \in BOOLEAN :
    LET removed == remove_user_token(cmd.user_id, write) IN
    Handled(cmd, Faults(FALSE, FALSE, write), removed.rows, note_messages,
            next_message_id, << >>, << >>,
            <<IF removed.ret THEN "removed" ELSE "remove_failed">>)

handle_reply_update(cmd) ==
    LET user_id == cmd.user_id IN
    \E read \in BOOLEAN :
    LET token == get_user_token(user_id, read) IN
    IF token = None \/ token = ""
    THEN Returned(cmd, Faults(read, FALSE, FALSE), <<"not_configured">>)
    ELSE IF ~cmd.from_bot THEN Returned(cmd, {}, << >>)
    ELSE \E lookup \in BOOLEAN :
    LET note_info == get_note_from_reply(user_id, cmd.reply_to, cmd.chat_id,
                                         lookup) IN
    IF ~note_info.has THEN Returned(cmd, Faults(FALSE, lookup, FALSE), << >>)
    ELSE LET new_content == strip(cmd.text) IN
    IF new_content = << >> THEN Returned(cmd, {}, <<"empty">>)
    ELSE \E outcome \in BotOutcomes :
         LET r == update_note(token, note_info.note_id, new_content,
                              note_info.note_type, outcome)
             result == r.result
             calls == <<Invocation("update_note", token, note_info.note_id,
                                   new_content, note_info.note_type)>> IN
         IF result.success
         THEN LET sent_message == next_message_id IN
              \E write \in BOOLEAN :
              Handled(cmd, Faults(FALSE, FALSE, write), user_tokens,
                      store_note_message(user_id, sent_message, cmd.chat_id,
                          note_info.note_id, note_info.note_type, write).rows,
                      next_message_id + 1, calls, r.sent, <<"updated">>)
         ELSE Handled(cmd, {}, user_tokens, note_messages, next_message_id,
                      calls, r.sent,
                      <<IF result.error = "unauthorized" THEN "auth_failed"
                        ELSE "failed">>)

\* ---------------------------------------------------- updates from Telegram
ConfigureCommand ==
    \E u \in Users : \E args \in ConfigureArgs(u) :
        /\ configure_command([op |-> "configure", user_id |-> u,
                              args |-> args, faults |-> {}])
        /\ found' = {}

NoteCommand ==
    \E u \in Users, chat \in BotChats, args \in ArgLists :
        /\ next_message_id <= MaxMsg
        /\ note_command([op |-> "note", user_id |-> u, chat_id |-> chat,
                         args |-> args, faults |-> {}])
        /\ found' = {}

BlinkoCommand ==
    \E u \in Users, chat \in BotChats, args \in ArgLists :
        /\ next_message_id <= MaxMsg
        /\ blinko_command([op |-> "blinko", user_id |-> u, chat_id |-> chat,
                           args |-> args, faults |-> {}])
        /\ found' = {}

StatusCommand ==
    \E u \in Users :
        /\ status_command([op |-> "status", user_id |-> u, faults |-> {}])
        /\ found' = {}

ResetCommand ==
    \E u \in Users :
        /\ reset_command([op |-> "reset", user_id |-> u, faults |-> {}])
        /\ found' = {}

\* filters.REPLY & filters.TEXT & ~filters.COMMAND: a text message that
\* replies to some message. A message the bot holds a correlation for in
\* this chat is one the bot sent.
HandleReplyUpdate ==
    \E u \in Users, chat \in BotChats, reply_to \in 1..MaxMsg,
       from_bot \in BOOLEAN, text \in ReplyTexts :
        /\ next_message_id <= MaxMsg
        /\ (\E r \in note_messages :
                r.message_id = reply_to /\ r.chat_id = chat) => from_bot
        /\ handle_reply_update([op |-> "reply", user_id |-> u,
                                chat_id |-> chat, reply_to |-> reply_to,
                                from_bot |-> from_bot, text |-> text,
                                faults |-> {}])
        /\ found' = {}

Next ==
    \/ ConfigureCommand
    \/ NoteCommand
    \/ BlinkoCommand
    \/ StatusCommand
    \/ ResetCommand
    \/ HandleReplyUpdate

Spec == Init /\ [][Next]_vars

\* The commands that read or write the credential, across restarts.
NextRestart ==
    \/ ConfigureCommand
    \/ StatusCommand
    \/ ResetCommand
    \/ HandleReplyUpdate
    \/ Restart

SpecRestart == Init /\ [][NextRestart]_vars

\* The store and the client side by side, as the one process holds them.
\* Their calls are those above, with the arguments narrowed to what one
\* user per row sends: their own name and token, one note for one message
\* of one chat, one line of content; every storage fault and every
\* exception of the transport stays.
BoundaryOutcomes ==
    {o \in Outcomes :
        \/ o.kind = "raise"
        \/ o.status \in {401, 500}
        \/ o.status = 200 /\ o.body.json = "invalid"
        \/ o.status = 200 /\ o.body.id = JInt(7)}

BoundaryArguments ==
    /\ call'.op = "store_user_token" =>
           /\ call'.username = UserName(call'.user_id)
           /\ call'.token = TokenOf(call'.user_id)
           /\ call'.blinko_url = None
    /\ call'.op = "store_note_message" =>
           (call'.note_id = "7" /\ call'.note_type = 0)
    /\ call'.op \in {"store_note_message", "get_note_from_reply"} =>
           (call'.message_id = 100 /\ call'.chat_id = 1)
    /\ call'.op \in {"create_note", "update_note"} =>
           (Len(call'.content) <= 1 /\ call'.note_type = 0)
    /\ call'.op = "update_note" => call'.note_id = "7"
    /\ \A i \in 1..Len(http') : http'[i].outcome \in BoundaryOutcomes

NextBoundary ==
    /\ \/ StoreUserToken
       \/ GetUserToken
       \/ GetUserConfig
       \/ RemoveUserToken
       \/ GetUserCount
       \/ StoreNoteMessage
       \/ GetNoteFromReply
       \/ CreateNote
       \/ UpdateNote
       \/ TestToken
    /\ BoundaryArguments

SpecBoundary == Init /\ [][NextBoundary]_vars

\* ------------------------------------------------ handlers, call by call
\* The handlers again, one storage call or one request per step, so that
\* the handlers of two users' commands interleave between any two calls.
\* The event loop switches coroutines at an await only; every schedule it
\* can produce is among these. One command per user is in flight; /blinko
\* runs the handler of /note with note_type 1 and is not repeated here.
StepCommands(u) ==
    {[op |-> "configure", user_id |-> u, args |-> <<TokenOf(u)>>],
     [op |-> "reset", user_id |-> u],
     [op |-> "status", user_id |-> u]}
    \cup [op : {"note"}, user_id : {u}, chat_id : BotChats,
          args : [1..1 -> Words]]
    \cup [op : {"reply"}, user_id : {u}, chat_id : BotChats,
          reply_to : 1..MaxMsg, from_bot : {TRUE}, text : ReplyTexts]

\* The commands that answer with a confirmation a reply can refer to.
Confirms(cmd) == cmd.op \in {"note", "reply"}

\* The first call of each handler.
FirstCall(cmd) ==
    IF cmd.op = "configure" THEN "call"
    ELSE IF cmd.op = "reset" THEN "write"
    ELSE "read"

\* What one step of the handler of u leaves behind.
Stepped(u, f, tokens, notes, next_id) ==
    /\ flight' = [flight EXCEPT ![u] = f]
    /\ user_tokens' = tokens
    /\ note_messages' = notes
    /\ next_message_id' = next_id
    /\ call' = [op |-> "step", user_id |-> u, cmd |-> flight[u].cmd.op,
                pc |-> flight[u].pc]
    /\ replies' = f.said
    /\ found' = {}
    /\ ret' = None
    /\ invoked' = << >>
    /\ http' = << >>
    /\ UNCHANGED cipher

\* The handler goes on to its next call, or returns.
Proceeds(u, f) == Stepped(u, f, user_tokens, note_messages, next_message_id)

Returns(u, said) == Proceeds(u, Idle(said))

\* An update arrives for a user whose last command has been handled. The
\* message a reply refers to has been sent, and MaxMsg bounds the
\* confirmations.
Begin(u) ==
    \E cmd \in StepCommands(u) :
        /\ flight[u].pc = "idle"
        /\ Confirms(cmd) =>
               next_message_id
                 + Cardinality({v \in Users : /\ flight[v].pc \in {"read", "lookup", "call"}
                                              /\ Confirms(flight[v].cmd)})
                 <= MaxMsg
        /\ cmd.op = "reply" => cmd.reply_to < next_message_id
        /\ flight' = [flight EXCEPT ![u] =
                          [Idle(<< >>) EXCEPT !.pc = FirstCall(cmd), !.cmd = cmd,
                               !.token = IF cmd.op = "configure"
                                         THEN JoinStr(cmd.args) ELSE None]]
        /\ call' = [op |-> "step", user_id |-> u, cmd |-> cmd.op, pc |-> "idle"]
        /\ replies' = << >>
        /\ found' = {}
        /\ ret' = None
        /\ invoked' = << >>
        /\ http' = << >>
        /\ UNCHANGED <<cipher, user_tokens, note_messages, next_message_id>>

\* storage.get_user_token / storage.get_user_config at the top of a handler
StoreRead(u) ==
    LET f == flight[u]
        cmd == f.cmd IN
    /\ f.pc = "read"
    /\ \E read \in BOOLEAN :
        LET token == IF cmd.op = "status"
                     THEN get_user_config(u, read).token
                     ELSE get_user_token(u, read) IN
        IF token = None \/ token = ""
        THEN Returns(u, <<"not_configured">>)
        ELSE Proceeds(u, [f EXCEPT !.token = token,
                               !.pc = IF cmd.op = "reply" THEN "lookup"
                                      ELSE "call"])

\* storage.get_note_from_reply of handle_reply_update
StoreLookup(u) ==
    LET f == flight[u]
        cmd == f.cmd IN
    /\ f.pc = "lookup"
    /\ \E lookup \in BOOLEAN :
        LET note_info == get_note_from_reply(u, cmd.reply_to, cmd.chat_id,
                                             lookup) IN
        IF ~note_info.has THEN Returns(u, << >>)
        ELSE IF strip(cmd.text) = << >> THEN Returns(u, <<"empty">>)
        ELSE Proceeds(u, [f EXCEPT !.note_info = note_info, !.pc = "call"])

\* The one request of the command, and the answer to the user that
\* follows it; a confirmation takes the next message id of the chat.
NetworkCall(u) ==
    LET f == flight[u]
        cmd == f.cmd IN
    /\ f.pc = "call"
    /\ \E outcome \in BotOutcomes :
        IF cmd.op \in {"configure", "status"}
        THEN LET test_result == test_token(f.token, outcome).result IN
             IF cmd.op = "status"
             THEN Returns(u, <<IF test_result.success THEN "status_active"
                               ELSE "status_invalid">>)
             ELSE IF ~test_result.success
             THEN Returns(u, <<"testing",
                               IF test_result.error = "unauthorized"
                               THEN "invalid_token" ELSE "connection_error">>)
             ELSE Proceeds(u, [f EXCEPT !.pc = "write"])
        ELSE LET note_type == IF cmd.op = "note" THEN 0
                              ELSE f.note_info.note_type
                 result ==
                     IF cmd.op = "reply"
                     THEN update_note(f.token, f.note_info.note_id,
                                      strip(cmd.text), note_type, outcome).result
                     ELSE create_note(f.token, strip(JoinChars(cmd.args)),
                                      note_type, outcome).result
                 said == <<IF cmd.op = "reply" THEN "updated" ELSE "added">>
             IN
             IF ~result.success
             THEN Returns(u, <<IF result.error = "unauthorized"
                               THEN "auth_failed" ELSE "failed">>)
             ELSE IF cmd.op = "reply"
             THEN Stepped(u, [f EXCEPT !.pc = "write", !.said = said,
                                   !.sent_message = next_message_id],
                          user_tokens, note_messages, next_message_id + 1)
             ELSE IF result.has_note_id /\ Truthy(result.note_id)
             THEN Stepped(u, [f EXCEPT !.pc = "write", !.said = said,
                                   !.sent_message = next_message_id,
                                   !.note_info =
                                       [has |-> TRUE,
                                        note_id |-> PyStr(result.note_id),
                                        note_type |-> note_type]],
                          user_tokens, note_messages, next_message_id + 1)
             ELSE Stepped(u, Idle(said), user_tokens, note_messages,
                          next_message_id + 1)

\* storage.store_user_token, remove_user_token or store_note_message: the
\* last call of its handler.
StoreWrite(u) ==
    LET f == flight[u]
        cmd == f.cmd IN
    /\ f.pc = "write"
    /\ \E write \in BOOLEAN :
        IF cmd.op = "configure"
        THEN LET stored == store_user_token(u, UserName(u), f.token, None,
                                            write) IN
             Stepped(u, Idle(<<"testing", IF stored.ret THEN "configured"
                                          ELSE "store_failed">>),
                     stored.rows, note_messages, next_message_id)
        ELSE IF cmd.op = "reset"
        THEN LET removed == remove_user_token(u, write) IN
             Stepped(u, Idle(<<IF removed.ret THEN "removed"
                               ELSE "remove_failed">>),
                     removed.rows, note_messages, next_message_id)
        ELSE Stepped(u, Idle(f.said), user_tokens,
                     store_note_message(u, f.sent_message, cmd.chat_id,
                         f.note_info.note_id, f.note_info.note_type, write).rows,
                     next_message_id)

\* The next call of the handler of u's command.
Step(u) == StoreRead(u) \/ StoreLookup(u) \/ NetworkCall(u) \/ StoreWrite(u)

BeginCommand == \E u \in Users : Begin(u)
ReadStep == \E u \in Users : StoreRead(u)
LookupStep == \E u \in Users : StoreLookup(u)
CallStep == \E u \in Users : NetworkCall(u)
WriteStep == \E u \in Users : StoreWrite(u)

NextSteps ==
    \/ BeginCommand
    \/ ReadStep
    \/ LookupStep
    \/ CallStep
    \/ WriteStep

SpecSteps == Init /\ [][NextSteps]_vars

\* ====================================================================
\* Properties
\* ====================================================================

IsUpsert == call.op \in {"create_note", "update_note"}

\* Content that is empty or made of whitespace only, said without strip().
Blank(content) == \A i \in 1..Len(content) : content[i] = " "

\* The outcome the transport gave the one request of the last call.
Wire == http[1].outcome

\* The last command sent the user this message.
Said(message) == \E i \in 1..Len(replies) : replies[i] = message

\* The user's row holds a token the running process cannot decrypt.
Undecryptable(u) ==
    \E r \in SelectUserToken(u) :
        decrypt(cipher, r.encrypted_token) = InvalidToken

Spaces(n) == [i \in 1..n |-> " "]

\* t is s without its leading and trailing spaces, said without strip().
IsTrimOf(t, s) ==
    /\ t # << >> => (t[1] # " " /\ t[Len(t)] # " ")
    /\ \E i, j \in 0..Len(s) : s = Spaces(i) \o t \o Spaces(j)

\* C1: when the row of a user cannot be decrypted under the current key,
\* get_user_token reports it as something other than the None of a user
\* without a row, and a note, reply or status command of that user is
\* answered with a request to reconfigure, not with "not configured".
C1_UndecryptableIsNotAbsent ==
    \A u \in Users :
        Undecryptable(u) =>
            /\ (call.op = "get_user_token" /\ call.user_id = u /\ ~call.fault)
                   => ret # None
            /\ (call.op \in {"note", "blinko", "reply", "status"}
                    /\ call.user_id = u /\ call.faults = {})
                   => (~Said("not_configured") /\ Said("reconfigure_required"))

\* C2: remove_user_token returns false when the user has no row, and the
\* store is then unchanged; it returns true when the user has a row, and
\* get_user_token for that user then returns None.
C2_RemoveReportsWhetherARowExisted ==
    [][\A u \in Users :
        (call'.op = "remove_user_token" /\ ~call'.fault /\ call'.user_id = u) =>
         /\ SelectUserToken(u) = {} => (ret' = FALSE /\ UNCHANGED db)
         /\ SelectUserToken(u) # {} =>
                (ret' = TRUE /\ get_user_token(u, FALSE)' = None)]_vars

\* C3: create_note and update_note with content that is not blank put one
\* request on the wire and classify its outcome: 401 is unauthorized, any
\* other status >= 400 is api_error with that status, a timeout is timeout,
\* a connection failure is connection, and whatever else is not a success
\* is unexpected. The result is a success or has exactly one error class.
C3_OutcomeClassification ==
    (IsUpsert /\ ~Blank(call.content)) =>
        /\ Len(http) = 1
        /\ ret.success = (ret.error = "")
        /\ ret.error \in {"", "unauthorized", "api_error", "timeout",
                          "connection", "unexpected"}
        /\ (Wire.kind = "response" /\ Wire.status = 401) =>
               ret.error = "unauthorized"
        /\ (Wire.kind = "response" /\ Wire.status >= 400 /\ Wire.status # 401) =>
               (ret.error = "api_error" /\ ret.status_code = Wire.status)
        /\ (Wire.kind = "raise" /\ Wire.exc \in {"ReadTimeout", "ConnectTimeout"}) =>
               ret.error = "timeout"
        /\ (Wire.kind = "raise" /\ Wire.exc \in {"ConnectionError", "SSLError"}) =>
               ret.error = "connection"
        /\ (Wire.kind = "raise" /\ Wire.exc = "InvalidURL") =>
               ret.error = "unexpected"
        /\ (Wire.kind = "response" /\ Wire.status < 400
                /\ Wire.body.json # "object") =>
               ret.error = "unexpected"
        /\ (Wire.kind = "response" /\ Wire.status < 400
                /\ Wire.body.json = "object") =>
               ret.success

C3_Witness ==
    /\ call.op = "update_note"
    /\ ~Blank(call.content)
    /\ Wire.kind = "response" /\ Wire.status = 500
    /\ ret.error = "api_error" /\ ret.status_code = 500

\* C4: test_token answers unauthorized exactly when the probe's response
\* has status 401; a response with any other status means the token is
\* accepted.
C4_OnlyA401Rejects ==
    call.op = "test_token" =>
        /\ (ret.error = "unauthorized") =
               (Wire.kind = "response" /\ Wire.status = 401)
        /\ (Wire.kind = "response" /\ Wire.status # 401) => ret.success

C4_Witness ==
    /\ call.op = "test_token"
    /\ Wire.kind = "response" /\ Wire.status = 403
    /\ ret.success

\* C5: create_note and update_note with blank content (empty or whitespace
\* only) return the validation error and put no request on the wire.
C5_BlankContentIsRejectedOffline ==
    (IsUpsert /\ Blank(call.content)) =>
        (~ret.success /\ ret.error = "validation" /\ http = << >>)

C5_Witness ==
    /\ call.op = "create_note"
    /\ call.content # << >> /\ Blank(call.content)
    /\ ret.error = "validation" /\ http = << >>

\* C6: a success of create_note or update_note comes from a 2xx response
\* with a parseable body and carries an identifier: the body's, or for
\* update_note without one in the body the note_id passed in; never None.
C6_SuccessCarriesAnIdentifier ==
    (IsUpsert /\ ret.success) =>
        /\ Wire.kind = "response"
        /\ Wire.status >= 200 /\ Wire.status <= 299
        /\ Wire.body.json = "object"
        /\ ret.note_id # JNone
        /\ ret.note_id = IF Wire.body.has_id THEN Wire.body.id
                         ELSE IF call.op = "update_note" THEN JStr(call.note_id)
                         ELSE JNone

\* C7: user_tokens never holds two rows of one user_id. A store_user_token
\* that succeeds for a user with a row leaves exactly the new row (token,
\* username, blinko_url) in its place and get_user_count as it was; for a
\* user without a row it raises get_user_count by one.
C7_OneRowPerUser ==
    /\ [](\A u \in Users : Cardinality(SelectUserToken(u)) <= 1)
    /\ [][\A u \in Users :
           (call'.op = "store_user_token" /\ ret' = TRUE /\ call'.user_id = u) =>
            /\ SelectUserToken(u)' =
                   {[user_id |-> u,
                     username |-> call'.username,
                     encrypted_token |-> encrypt(cipher, call'.token),
                     blinko_url |-> call'.blinko_url]}
            /\ get_user_token(u, FALSE)' = call'.token
            /\ SelectUserToken(u) # {} =>
                   get_user_count(FALSE)' = get_user_count(FALSE)
            /\ SelectUserToken(u) = {} =>
                   get_user_count(FALSE)' = get_user_count(FALSE) + 1]_vars

C7_Witness ==
    /\ call.op = "store_user_token" /\ ret = TRUE
    /\ found # {}
    /\ found # SelectUserToken(call.user_id)
    /\ get_user_count(FALSE) = 2

\* A step that is an upsert or a removal of the credential of u.
WritesCredentialOf(u) ==
    /\ call'.op \in {"store_user_token", "remove_user_token",
                     "configure", "reset"}
    /\ call'.user_id = u

\* The last step stored token s for user u and reported success.
Upserted(u, s) ==
    \/ /\ call.op = "store_user_token" /\ ret = TRUE
       /\ call.user_id = u /\ call.token = s
    \/ /\ call.op = "configure" /\ Said("configured")
       /\ call.user_id = u /\ JoinStr(call.args) = s

\* C8: with the key unchanged, once token s is stored for user u,
\* get_user_token(u) returns s, and keeps returning what it returned across
\* every step that is not an upsert or removal for u: the commands of other
\* users and the writes of note_messages. The encrypted_token column holds
\* the ciphertext of s under the key, not s.
C8_StoredTokenReadsBack ==
    /\ [](\A u \in Users, s \in Tokens :
              Upserted(u, s) =>
                  /\ get_user_token(u, FALSE) = s
                  /\ \A r \in SelectUserToken(u) :
                         /\ r.encrypted_token = encrypt(cipher, s)
                         /\ r.encrypted_token # s)
    /\ [](\A r \in user_tokens : r.encrypted_token \notin Tokens)
    /\ [][\A u \in Users :
            (cipher' = cipher /\ ~WritesCredentialOf(u)) =>
                get_user_token(u, FALSE)' = get_user_token(u, FALSE)]_vars

C8_Witness ==
    /\ call.op = "note" /\ call.user_id = 2 /\ Said("added")
    /\ \E r \in note_messages : r.user_id = 2
    /\ get_user_token(1, FALSE) = "token-aaaa"
    /\ get_user_token(2, FALSE) = "token-bbbb"

\* C9: note_messages is keyed by (user_id, message_id, chat_id). After a
\* store_note_message that succeeds, get_note_from_reply on its triple
\* returns its note_id and note_type, also when the triple had a row, and
\* the table holds one row for it; the rows of every other triple are as
\* they were, so a triple never written has none.
C9_CorrelationKeyedByTriple ==
    /\ [](\A u \in Users, m \in MsgIds, c \in Chats :
              Cardinality(SelectNoteMessage(u, m, c)) <= 1)
    /\ [][\A u \in Users, m \in MsgIds, c \in Chats :
           LET written == /\ call'.op = "store_note_message"
                          /\ ret' = TRUE
                          /\ <<u, m, c>> = <<call'.user_id, call'.message_id,
                                             call'.chat_id>>
           IN
           /\ written =>
                  get_note_from_reply(u, m, c, FALSE)' =
                      [has |-> TRUE, note_id |-> call'.note_id,
                       note_type |-> call'.note_type]
           /\ ~written =>
                  SelectNoteMessage(u, m, c)' = SelectNoteMessage(u, m, c)]_vars

C9_Witness ==
    /\ call.op = "store_note_message" /\ ret = TRUE
    /\ found # {}
    /\ found # SelectNoteMessage(call.user_id, call.message_id, call.chat_id)
    /\ Cardinality(note_messages) = 2
    /\ ~get_note_from_reply(call.user_id, 100 + (101 - call.message_id),
                            call.chat_id, FALSE).has

\* C10: a user with a readable token replies with text that is not blank to
\* a message of the bot for which note_messages has a row (user, message
\* replied to, chat), and no storage call of the command faults. Then
\* update_note is called once, with the row's note_id, the text without its
\* surrounding whitespace and the row's note_type; when it succeeds, a row
\* with that note_id and note_type is there for the confirmation message;
\* and the row replied to stays as it was.
C10_ReplyUpdatesCorrelatedNote ==
    [][\A u \in Users, c \in BotChats, m \in 1..MaxMsg :
        LET info == get_note_from_reply(u, m, c, FALSE)
            token == get_user_token(u, FALSE)
        IN
        (/\ call'.op = "reply" /\ call'.faults = {}
         /\ call'.user_id = u /\ call'.chat_id = c /\ call'.reply_to = m
         /\ call'.from_bot /\ ~Blank(call'.text)
         /\ token \in Tokens /\ info.has)
        =>
        /\ Len(invoked') = 1
        /\ invoked'[1].fn = "update_note"
        /\ invoked'[1].token = token
        /\ invoked'[1].note_id = info.note_id
        /\ invoked'[1].note_type = info.note_type
        /\ IsTrimOf(invoked'[1].content, call'.text)
        /\ Len(http') = 1
        /\ http'[1].json.has_id /\ http'[1].json.id = info.note_id
        /\ IsTrimOf(http'[1].json.content, call'.text)
        /\ http'[1].json.type = info.note_type
        /\ Said("updated")' =>
               /\ next_message_id' = next_message_id + 1
               /\ \A sent_message \in 1..MaxMsg :
                      sent_message = next_message_id =>
                          get_note_from_reply(u, sent_message, c, FALSE)' =
                              [has |-> TRUE, note_id |-> info.note_id,
                               note_type |-> info.note_type]
        /\ Said("updated")' = (http'[1].outcome.kind = "response"
                               /\ http'[1].outcome.status = 200)
        /\ get_note_from_reply(u, m, c, FALSE)' = info]_vars

C10_Witness ==
    /\ call.op = "reply" /\ call.faults = {} /\ Said("updated")
    /\ call.text = <<" ", "x">>
    /\ invoked[1].content = <<"x">>
    /\ call.reply_to = 1 /\ next_message_id = 3
    /\ get_note_from_reply(call.user_id, 1, call.chat_id, FALSE).has
    /\ get_note_from_reply(call.user_id, 2, call.chat_id, FALSE) =
           get_note_from_reply(call.user_id, 1, call.chat_id, FALSE)
    /\ Wire.body.has_id /\ PyStr(Wire.body.id) # invoked[1].note_id

\* The last command is a /note, a /blinko or a reply.
IsNoteCommand == call.op \in {"note", "blinko", "reply"}

\* C11: a /note, /blinko or reply command that told the user it succeeded
\* ("added", "updated") leaves a note_messages row for the user, the
\* confirmation message it sent and the chat; also when the response had
\* no id or a falsy one, and when the write of the row failed.
C11_SuccessLeavesACorrelation ==
    (IsNoteCommand /\ (Said("added") \/ Said("updated"))) =>
        get_note_from_reply(call.user_id, next_message_id - 1, call.chat_id,
                            FALSE).has

\* The /configure command of the step got its token accepted by test_token.
Accepted ==
    /\ Len(invoked') = 1
    /\ invoked'[1].fn = "test_token"
    /\ test_token(invoked'[1].token, http'[1].outcome).result.success

\* C12: a row of user_tokens is written only by a /configure of its user
\* whose test_token call returned success. A /configure that stops before
\* the call (no argument, token shorter than 10 characters) or whose call
\* returned unauthorized, timeout, connection or unexpected leaves
\* user_tokens as it was, and get_user_token returns what it returned.
C12_OnlyValidatedConfigureWrites ==
    [][\A u \in Users :
        /\ (SelectUserToken(u)' # SelectUserToken(u) /\ SelectUserToken(u)' # {})
               => (call'.op = "configure" /\ call'.user_id = u /\ Accepted)
        /\ (call'.op = "configure" /\ call'.user_id = u /\ ~Accepted) =>
               /\ UNCHANGED user_tokens
               /\ get_user_token(u, FALSE)' = get_user_token(u, FALSE)
               /\ (Len(JoinStr(call'.args)) < MinTokenLen) = (invoked' = << >>)]_vars

C12_Witness ==
    /\ call.op = "configure"
    /\ Len(http) = 1 /\ Wire.kind = "raise"
    /\ Said("connection_error")
    /\ get_user_token(call.user_id, FALSE) = TokenOf(call.user_id)

\* C13: a /configure, /note, /blinko, /status or reply command calls the
\* client at most once and puts at most one request on the wire, whatever
\* the outcome of the request; a command of a user for whom get_user_token
\* returns None, a /note or /blinko without content and a reply with blank
\* text put none.
C13_AtMostOneRequest ==
    [][call'.op \in {"configure", "note", "blinko", "status", "reply"} =>
        /\ Len(invoked') <= 1
        /\ Len(http') <= Len(invoked')
        /\ \A u \in Users :
               (/\ call'.user_id = u
                /\ call'.op \in {"note", "blinko", "status", "reply"}
                /\ get_user_token(u, FALSE) = None) => http' = << >>
        /\ (call'.op \in {"note", "blinko"} /\ Blank(JoinChars(call'.args)))
               => http' = << >>
        /\ (call'.op = "reply" /\ Blank(call'.text)) => http' = << >>
        /\ (call'.op = "configure" /\ call'.args = << >>) => http' = << >>]_vars

C13_Witness ==
    /\ call.op = "note" /\ call.faults = {}
    /\ Len(http) = 1
    /\ Wire.kind = "raise" /\ Wire.exc = "ReadTimeout"
    /\ Said("failed")

\* C14: the session of the client verifies certificates unless it warns
\* that it does not, and every request goes out with verification on: the
\* constructor has no argument that could opt out.
C14_VerifiesCertificatesByDefault ==
    /\ session.verify
    /\ \A i \in 1..Len(http) : http[i].verify

\* The last call is a method of UserStorage, and what the method returns
\* when the storage layer faults.
IsStoreCall ==
    call.op \in {"store_user_token", "get_user_token", "get_user_config",
                 "remove_user_token", "get_user_count", "store_note_message",
                 "get_note_from_reply"}

FailureValue ==
    IF call.op = "get_user_token" THEN ret = None
    ELSE IF call.op = "get_user_config" THEN ret = NoConfig
    ELSE IF call.op = "get_note_from_reply" THEN ret = NoNote
    ELSE IF call.op = "get_user_count" THEN ret = 0
    ELSE ret = FALSE

IsClientCall == call.op \in {"create_note", "update_note", "test_token"}

\* C15: no method of UserStorage and no method of BlinkoAPI lets a fault
\* out. A storage fault during a call makes the method return its failure
\* value (False, None, 0) and, in a write, leaves both tables as they
\* were; an exception of the transport, or a body that cannot be parsed,
\* makes the client return a failure dict with error timeout, connection
\* or unexpected.
C15_NoFaultEscapes ==
    /\ []((IsStoreCall /\ call.fault) => FailureValue)
    /\ []((IsClientCall /\ http # << >> /\ Wire.kind = "raise") =>
              /\ ~ret.success
              /\ ret.error \in {"timeout", "connection", "unexpected"})
    /\ []((IsUpsert /\ http # << >> /\ Wire.kind = "response"
              /\ Wire.status < 400 /\ Wire.body.json = "invalid") =>
              (~ret.success /\ ret.error = "unexpected"))
    /\ [][(IsStoreCall' /\ call'.fault) => UNCHANGED db]_vars

C15_Witness ==
    /\ call.op = "store_note_message" /\ call.fault /\ ret = FALSE
    /\ found # {}
    /\ found = SelectNoteMessage(call.user_id, call.message_id, call.chat_id)
    /\ user_tokens # {}

\* The rows of note_messages for a message of a chat, whoever the user.
RowsOfMessage(m, c) ==
    {r \in note_messages : r.message_id = m /\ r.chat_id = c}

\* C17: no command deletes or rewrites a row of note_messages: a triple
\* for which get_note_from_reply returns a note returns that note after
\* every command. A /reset removes at most the row of its user from
\* user_tokens and leaves note_messages as it was, so a reply to an old
\* confirmation finds its note again once the user has reconfigured.
C17_CorrelationsAreKept ==
    [][/\ \A u \in Users, m \in 1..MaxMsg, c \in BotChats :
              get_note_from_reply(u, m, c, FALSE).has =>
                  get_note_from_reply(u, m, c, FALSE)' =
                      get_note_from_reply(u, m, c, FALSE)
       /\ note_messages \subseteq note_messages'
       /\ call'.op = "reset" =>
              /\ UNCHANGED note_messages
              /\ \A v \in Users :
                     v # call'.user_id =>
                         SelectUserToken(v)' = SelectUserToken(v)]_vars

C17_Witness ==
    /\ call.op = "reset" /\ call.faults = {} /\ Said("removed")
    /\ get_user_token(call.user_id, FALSE) = None
    /\ \E r \in note_messages : r.user_id = call.user_id

\* C18: every row that enters note_messages is either written by a /note
\* or /blinko of the row's user for the confirmation it sent, with the id
\* of the response to its create_note and its note type, or by a reply of
\* the row's user, with the note_id and note_type of that user's row for
\* the message replied to, whatever id the update's response carried. A
\* reply of a user who has no row for the message, though another user
\* has one, calls the client zero times and changes neither table.
C18_RowsTraceToACreate ==
    [][/\ \A r \in note_messages' \ note_messages :
              /\ r.message_id = next_message_id
              /\ call'.op \in {"note", "blinko", "reply"}
              /\ call'.user_id = r.user_id /\ call'.chat_id = r.chat_id
              /\ call'.op \in {"note", "blinko"} =>
                     /\ invoked'[1].fn = "create_note"
                     /\ Said("added")'
                     /\ http'[1].outcome.kind = "response"
                     /\ http'[1].outcome.status < 400
                     /\ http'[1].outcome.body.has_id
                     /\ r.note_id = PyStr(http'[1].outcome.body.id)
                     /\ r.note_type = invoked'[1].note_type
                     /\ r.note_type = (IF call'.op = "note" THEN 0 ELSE 1)
              /\ call'.op = "reply" =>
                     \E r0 \in RowsOfMessage(call'.reply_to, r.chat_id) :
                         /\ r0.user_id = r.user_id
                         /\ r.note_id = r0.note_id
                         /\ r.note_type = r0.note_type
       /\ (/\ call'.op = "reply"
           /\ \A r \in RowsOfMessage(call'.reply_to, call'.chat_id) :
                  r.user_id # call'.user_id)
          => (invoked' = << >> /\ http' = << >> /\ UNCHANGED db)]_vars

C18_Witness ==
    /\ call.op = "reply" /\ call.faults = {}
    /\ call.from_bot /\ ~Blank(call.text)
    /\ get_user_token(call.user_id, FALSE) \in Tokens
    /\ RowsOfMessage(call.reply_to, call.chat_id) # {}
    /\ \A r \in RowsOfMessage(call.reply_to, call.chat_id) :
           r.user_id # call.user_id
    /\ invoked = << >> /\ replies = << >>

\* The rows of note_messages of a user.
NotesOf(u) == {r \in note_messages : r.user_id = u}

\* The handler of b's command holds what it would read now.
ReadsItsOwn(b) ==
    LET f == flight[b] IN
    /\ (f.pc \in {"lookup", "call"} /\ f.cmd.op # "configure") =>
           f.token = get_user_token(b, FALSE)
    /\ (f.pc = "call" /\ f.cmd.op = "reply") =>
           f.note_info = get_note_from_reply(b, f.cmd.reply_to, f.cmd.chat_id,
                                             FALSE)

\* C16: the handlers of the commands of two users interleave call by
\* call. A step of the command of a leaves the user_tokens row of every
\* other user b, the note_messages rows of b and the locals of b's handler
\* as they were; so what b's handler has read is what it would read now,
\* and its next call can be taken whatever a's command did, a timeout, a
\* failure or a storage fault included.
C16_UsersDoNotInterfere ==
    /\ [][\A a, b \in Users :
             (a # b /\ call'.op = "step" /\ call'.user_id = a) =>
                 /\ SelectUserToken(b)' = SelectUserToken(b)
                 /\ NotesOf(b)' = NotesOf(b)
                 /\ flight'[b] = flight[b]]_vars
    /\ [](\A b \in Users : ReadsItsOwn(b))
    /\ [](\A b \in Users : flight[b].pc # "idle" => ENABLED Step(b))

C16_Witness ==
    /\ call.op = "step" /\ call.user_id = 1 /\ call.cmd = "note"
    /\ flight[1].pc = "idle" /\ flight[1].said = <<"failed">>
    /\ flight[2].pc = "write" /\ flight[2].cmd.op = "note"
    /\ flight[2].sent_message = 1
    /\ flight[2].token = get_user_token(2, FALSE)

====
